---- MODULE Spec2Model ----
(***************************************************************************)
(* Model of the spectre escalation engine (src/src/engine.rs):             *)
(*   - GridManager: the egress-node pool (rotation, failures, cooldown);   *)
(*   - ResponseAnalyzer::analyze: the response classifier;                 *)
(*   - CoreEngine::run: the worker loop and the shared counters;           *)
(*   - StructuralHasher::hash and BrowserSolver::solve.                    *)
(*                                                                         *)
(* The specifications share the operators that model the code:             *)
(*   SpecPool       the GridManager driven by the calls run() makes on it; *)
(*   SpecAnalyze    analyze applied to bounded (status, body) inputs;      *)
(*   SpecHash       hash applied to pairs of bounded bodies;               *)
(*   SpecSolver     solve, step by step, with its clock;                   *)
(*   Spec           the workers of run() with the pool, locks, counters;   *)
(*   SpecFair       Spec with at most one proxy and fair pool calls;       *)
(*   SpecInterrupt  Spec with the interrupt signal and the process exit.   *)
(*                                                                         *)
(* Option<T> is modelled as a set: None is {} and Some(x) is {x}.          *)
(* Time is Instant::now() in whole seconds.  The configured proxy URLs are *)
(* pairwise distinct (report_* address a node by its URL).                 *)
(***************************************************************************)
EXTENDS Integers, Sequences, FiniteSets, TLC

(* ------------------------------ bounds -------------------------------- *)

\* Largest configured pool (network.proxies); pools of 0..MaxNodes nodes.
MaxNodes == 2

\* general.concurrency: the number of workers.
NumWorkers == 2

\* The clock advances MaxTicks times, half a cooldown each time.
MaxTicks == 2

\* A response body given to analyze is made of at most MaxFragments fragments.
MaxFragments == 3

\* The workers start at most MaxAttempts loop iterations between them.
MaxAttempts == 2

\* Tokens (tags and runs of text) per body in SpecHash.
MaxTokens == 2

\* SpecSolver: the time the calls of one poll iteration take on top of the
\* sleep, in units of POLL_INTERVAL_MS, is at most this.
MaxLag == 1

(* ------------------------- program constants -------------------------- *)

\* report_failure: `if node.failures > 3`
THRESHOLD == 3

\* report_failure: `Duration::from_secs(60)`
COOLDOWN_SECS == 60

None == {}

Some(x) == {x}

\* The configured proxy URLs, in configuration order.
ProxyUrls == [i \in 1..MaxNodes |-> i]

(* --------------------------- GridManager ------------------------------ *)

\* GridManager::new: every node starts with no failures and no cooldown.
GridManager_new(proxies) ==
    [nodes |-> [i \in 1..Len(proxies) |->
                   [url |-> proxies[i], failures |-> 0, cooldown_until |-> None]],
     index |-> 0]

\* Mutant of advance: the cursor moves two places.
advance_two(g) ==
    IF Len(g.nodes) = 0 THEN g
    ELSE [g EXCEPT !.index = (g.index + 2) % Len(g.nodes)]

\* GridManager::advance, as a function of the cursor.
advance(g) ==
    IF Len(g.nodes) = 0 THEN g
    ELSE [g EXCEPT !.index = (g.index + 1) % Len(g.nodes)]

\* Mutant of clear_cooldown: the failure count survives the recovery.
clear_cooldown_keeps_count(node) == [node EXCEPT !.cooldown_until = None]

\* `node.cooldown_until = None; node.failures = 0;`
clear_cooldown(node) == [node EXCEPT !.cooldown_until = None, !.failures = 0]

\* `Instant::now() < cooldown`
before_deadline(t, cooldown) == t < cooldown

\* The loop of get_next_node.  `scanned` counts the nodes inspected so far.
\* The result is the pool after the call, the returned Option<String> and
\* the number of nodes inspected.
RECURSIVE get_next_node_loop(_, _, _, _)
get_next_node_loop(g, start_index, t, scanned) ==
    IF Len(g.nodes) = 0
    THEN [gm |-> g, ret |-> None, scanned |-> scanned]
    ELSE LET node == g.nodes[g.index + 1] IN
         IF node.cooldown_until # None
         THEN LET cooldown == CHOOSE c \in node.cooldown_until : TRUE IN
              IF before_deadline(t, cooldown)
              THEN LET g1 == advance(g) IN
                   IF g1.index = start_index
                   THEN [gm |-> g1, ret |-> None, scanned |-> scanned + 1]
                   ELSE get_next_node_loop(g1, start_index, t, scanned + 1)
              ELSE LET g1 == [g EXCEPT !.nodes[g.index + 1] = clear_cooldown(node)]
                   IN [gm |-> advance(g1), ret |-> Some(node.url),
                       scanned |-> scanned + 1]
         ELSE [gm |-> advance(g), ret |-> Some(node.url), scanned |-> scanned + 1]

\* Mutant of get_next_node: the scan ends at position 0, not at the cursor
\* the call started from.
get_next_node_from_zero(g, t) == get_next_node_loop(g, 0, t, 0)

\* GridManager::get_next_node at time t.
get_next_node(g, t) == get_next_node_loop(g, g.index, t, 0)

\* `self.nodes.iter_mut().find(|n| n.url == proxy_url)`: the first match.
find_node(g, proxy_url) ==
    LET hits == {i \in 1..Len(g.nodes) : g.nodes[i].url = proxy_url} IN
    IF hits = {} THEN None
    ELSE Some(CHOOSE i \in hits : \A j \in hits : i <= j)

\* Mutant of report_failure: the cooldown starts one failure late.
report_failure_late(g, proxy_url, t) ==
    LET hits == {i \in 1..Len(g.nodes) : g.nodes[i].url = proxy_url} IN
    IF hits = {} THEN g
    ELSE LET i == CHOOSE x \in hits : \A j \in hits : x <= j
             f == g.nodes[i].failures + 1
         IN IF f > THRESHOLD + 1
            THEN [g EXCEPT !.nodes[i].failures = f,
                           !.nodes[i].cooldown_until = Some(t + COOLDOWN_SECS)]
            ELSE [g EXCEPT !.nodes[i].failures = f]

\* Mutant of report_failure: the count goes up and no deadline is ever set.
report_failure_counts_only(g, proxy_url, t) ==
    LET hits == {i \in 1..Len(g.nodes) : g.nodes[i].url = proxy_url} IN
    IF hits = {} THEN g
    ELSE LET i == CHOOSE x \in hits : \A j \in hits : x <= j
         IN [g EXCEPT !.nodes[i].failures = @ + 1]

\* Mutant of report_failure: a deadline that is already set is left as it is.
report_failure_keeps_deadline(g, proxy_url, t) ==
    LET hits == {i \in 1..Len(g.nodes) : g.nodes[i].url = proxy_url} IN
    IF hits = {} THEN g
    ELSE LET i == CHOOSE x \in hits : \A j \in hits : x <= j
             f == g.nodes[i].failures + 1
         IN IF f > THRESHOLD /\ g.nodes[i].cooldown_until = None
            THEN [g EXCEPT !.nodes[i].failures = f,
                           !.nodes[i].cooldown_until = Some(t + COOLDOWN_SECS)]
            ELSE [g EXCEPT !.nodes[i].failures = f]

\* GridManager::report_failure at time t.
report_failure(g, proxy_url, t) ==
    LET found == find_node(g, proxy_url) IN
    IF found = None THEN g
    ELSE LET i == CHOOSE x \in found : TRUE
             f == g.nodes[i].failures + 1
         IN IF f > THRESHOLD
            THEN [g EXCEPT !.nodes[i].failures = f,
                           !.nodes[i].cooldown_until = Some(t + COOLDOWN_SECS)]
            ELSE [g EXCEPT !.nodes[i].failures = f]

\* Mutant of report_success: the node's cooldown deadline is cleared too.
report_success_clears_cooldown(g, proxy_url) ==
    LET hits == {i \in 1..Len(g.nodes) : g.nodes[i].url = proxy_url} IN
    IF hits = {} THEN g
    ELSE LET i == CHOOSE x \in hits : \A j \in hits : x <= j
         IN [g EXCEPT !.nodes[i].failures = 0, !.nodes[i].cooldown_until = None]

\* GridManager::report_success.
report_success(g, proxy_url) ==
    LET found == find_node(g, proxy_url) IN
    IF found = None THEN g
    ELSE LET i == CHOOSE x \in found : TRUE
         IN [g EXCEPT !.nodes[i].failures = 0]

(* ------------------------- ResponseAnalyzer --------------------------- *)

\* `haystack.contains(needle)` on strings.
contains(haystack, needle) ==
    \E i \in 1..(Len(haystack) - Len(needle) + 1) :
        SubSeq(haystack, i, i + Len(needle) - 1) = needle

UpperCase == "ABCDEFGHIJKLMNOPQRSTUVWXYZ"

LowerCase == "abcdefghijklmnopqrstuvwxyz"

\* char::to_lowercase on the characters the bodies are made of.
lower_char(c) ==
    LET hits == {i \in 1..Len(UpperCase) : SubSeq(UpperCase, i, i) = c} IN
    IF hits = {} THEN c
    ELSE LET i == CHOOSE x \in hits : TRUE IN SubSeq(LowerCase, i, i)

\* `body.to_lowercase()`
RECURSIVE to_lowercase(_)
to_lowercase(str) ==
    IF Len(str) = 0 THEN ""
    ELSE lower_char(SubSeq(str, 1, 1)) \o to_lowercase(SubSeq(str, 2, Len(str)))

Success == [kind |-> "Success", reason |-> ""]

Blocked(reason) == [kind |-> "Blocked", reason |-> reason]

Challenge(reason) == [kind |-> "Challenge", reason |-> reason]

\* `let block_words = [...]`, in the order the loop tries them.
block_words == <<"access denied", "attention required", "security check">>

\* The `for word in block_words` loop: the first word the body contains.
first_block_word(body_lower) ==
    LET hits == {i \in 1..Len(block_words) : contains(body_lower, block_words[i])} IN
    IF hits = {} THEN None
    ELSE Some(block_words[CHOOSE i \in hits : \A j \in hits : i <= j])

\* Mutant of analyze: the challenge markers are tried before the success
\* markers.
analyze_challenge_first(status, body) ==
    LET body_lower == to_lowercase(body)
        word == first_block_word(body_lower)
    IN IF contains(body_lower, "checking your browser")
          \/ contains(body_lower, "enable javascript")
       THEN Challenge("Generic JS")
       ELSE IF contains(body_lower, "cloudflare") /\ contains(body_lower, "ray id")
       THEN Challenge("Cloudflare")
       ELSE IF contains(body, "OWASP Juice Shop") \/ contains(body, "app-root")
               \/ contains(body, "Access Granted")
       THEN Success
       ELSE IF status = 403 \/ status = 429
       THEN Blocked("HTTP " \o ToString(status))
       ELSE IF word # None
       THEN Blocked("Keyword: " \o (CHOOSE x \in word : TRUE))
       ELSE IF status >= 200 /\ status < 300
       THEN Success
       ELSE Blocked("Status " \o ToString(status))

\* Mutant of analyze: the block keywords are tried before the 403/429 status.
analyze_keywords_first(status, body) ==
    LET body_lower == to_lowercase(body)
        word == first_block_word(body_lower)
    IN IF contains(body, "OWASP Juice Shop") \/ contains(body, "app-root")
          \/ contains(body, "Access Granted")
       THEN Success
       ELSE IF contains(body_lower, "checking your browser")
               \/ contains(body_lower, "enable javascript")
       THEN Challenge("Generic JS")
       ELSE IF contains(body_lower, "cloudflare") /\ contains(body_lower, "ray id")
       THEN Challenge("Cloudflare")
       ELSE IF word # None
       THEN Blocked("Keyword: " \o (CHOOSE x \in word : TRUE))
       ELSE IF status = 403 \/ status = 429
       THEN Blocked("HTTP " \o ToString(status))
       ELSE IF status >= 200 /\ status < 300
       THEN Success
       ELSE Blocked("Status " \o ToString(status))

\* ResponseAnalyzer::analyze (the logger side channel left out).
analyze(status, body) ==
    LET body_lower == to_lowercase(body)
        word == first_block_word(body_lower)
    IN IF contains(body, "OWASP Juice Shop") \/ contains(body, "app-root")
          \/ contains(body, "Access Granted")
       THEN Success
       ELSE IF contains(body_lower, "checking your browser")
               \/ contains(body_lower, "enable javascript")
       THEN Challenge("Generic JS")
       ELSE IF contains(body_lower, "cloudflare") /\ contains(body_lower, "ray id")
       THEN Challenge("Cloudflare")
       ELSE IF status = 403 \/ status = 429
       THEN Blocked("HTTP " \o ToString(status))
       ELSE IF word # None
       THEN Blocked("Keyword: " \o (CHOOSE x \in word : TRUE))
       ELSE IF status >= 200 /\ status < 300
       THEN Success
       ELSE Blocked("Status " \o ToString(status))

(* ------------------------- StructuralHasher --------------------------- *)

\* Mutant of hashed_chars: every character is fed to the hasher, in a tag or
\* not.
RECURSIVE hashed_chars_all(_, _, _)
hashed_chars_all(html, i, in_tag) ==
    IF i > Len(html) THEN ""
    ELSE SubSeq(html, i, i) \o hashed_chars_all(html, i + 1, in_tag)

\* The loop of StructuralHasher::hash: the characters fed to the hasher,
\* from position i on, given the in_tag flag so far.
RECURSIVE hashed_chars(_, _, _)
hashed_chars(html, i, in_tag) ==
    IF i > Len(html) THEN ""
    ELSE LET c == SubSeq(html, i, i)
             in_tag1 == IF c = "<" THEN TRUE ELSE IF c = ">" THEN FALSE ELSE in_tag
         IN (IF in_tag1 THEN c ELSE "") \o hashed_chars(html, i + 1, in_tag1)

\* StructuralHasher::hash.  DefaultHasher is taken to be injective on the
\* character sequences it is fed: the hash is that sequence.
StructuralHasher_hash(html) == hashed_chars(html, 1, FALSE)

(* ------------------------ Result<T, E> values ------------------------- *)

Ok(x) == [ok |-> TRUE, val |-> x]

Err(e) == [ok |-> FALSE, val |-> e]

(* --------------------------- BrowserSolver ---------------------------- *)

\* `let timeout = Duration::from_secs(30);`, in milliseconds.
POLL_TIMEOUT_MS == 30000

\* `std::thread::sleep(Duration::from_millis(500));`
POLL_INTERVAL_MS == 500

\* The test solve makes on the page content.
content_solved(content) ==
    \/ contains(content, "OWASP Juice Shop")
    \/ contains(content, "app-root")
    \/ contains(content, "Access Granted")

\* `cookies.iter().map(|c| format!("{}={}", c.name, c.value)).collect().join("; ")`
RECURSIVE cookie_str(_)
cookie_str(cookies) ==
    IF cookies = <<>> THEN ""
    ELSE Head(cookies).name \o "=" \o Head(cookies).value
         \o (IF Tail(cookies) = <<>> THEN "" ELSE "; " \o cookie_str(Tail(cookies)))

\* Mutant of poll_once: the joined cookie string is returned without the
\* test that it is not empty.
poll_once_accepts_empty(content_res, cookies_res) ==
    IF content_res.ok /\ content_solved(content_res.val) /\ cookies_res.ok
    THEN Some(cookie_str(cookies_res.val))
    ELSE None

\* The body of the poll loop before the sleep: Some(the string returned), or
\* None when the loop goes on.  tab.get_cookies() is called only when the
\* content holds a marker.
poll_once(content_res, cookies_res) ==
    IF content_res.ok /\ content_solved(content_res.val) /\ cookies_res.ok
       /\ cookie_str(cookies_res.val) # ""
    THEN Some(cookie_str(cookies_res.val))
    ELSE None

(* --------------------------- ClientFactory ---------------------------- *)

\* The `match impersonation_str.as_str()` of create_client.
emulation_of(impersonation_str) ==
    IF impersonation_str = "chrome_130" THEN "Chrome130"
    ELSE IF impersonation_str = "safari_16" THEN "Safari16_5"
    ELSE "Chrome130"

\* ClientFactory::create_client.  transport_ok is whether Proxy::all(proxy)
\* and builder.build() both succeed.
create_client(profile_map, profile_key, transport_ok) ==
    IF profile_key \notin DOMAIN profile_map
    THEN Err("Profile not found: " \o profile_key)
    ELSE IF ~transport_ok
    THEN Err("Failed to build TLS client")
    ELSE Ok(emulation_of(profile_map[profile_key]))

(* ------------------ CoreEngine::run: the match arms -------------------- *)

\* What an attempt with a built client ended as, from the worker's locals:
\* the arm of `match client.get(..).send().await`, of `match verdict` and of
\* `match solved` that ran.
outcome_of(a) ==
    IF a.send = "err" THEN "NetworkError"
    ELSE IF a.verdict = None THEN "none"
    ELSE LET v == CHOOSE x \in a.verdict : TRUE IN
         IF v.kind # "Challenge" THEN v.kind
         ELSE IF a.solved = None THEN "none"
         ELSE IF (CHOOSE x \in a.solved : TRUE) = "Ok" THEN "Solved"
         ELSE "SolverFailed"

\* Mutant of counter_of: a Blocked verdict is counted as failed.
counter_of_blocked_as_failed(outcome) ==
    IF outcome \in {"Success", "Solved"} THEN "successful_requests"
    ELSE IF outcome = "SolverFailed" THEN "blocked_requests"
    ELSE "failed_requests"

\* The counter the arm increments (`stats.<counter>.fetch_add(1, ..)`).
counter_of(outcome) ==
    IF outcome \in {"Success", "Solved"} THEN "successful_requests"
    ELSE IF outcome \in {"Blocked", "SolverFailed"} THEN "blocked_requests"
    ELSE "failed_requests"

\* The GridManager call the arm makes on the node.
report_of(outcome) ==
    IF outcome \in {"Success", "Solved"} THEN "report_success"
    ELSE "report_failure"

(* ------------------------------ state --------------------------------- *)

VARIABLES
    gm,          \* the GridManager behind Arc<Mutex<..>>: [nodes, index]
    now,         \* Instant::now(), in seconds
    held,        \* url -> acquisitions of the url not yet reported or dropped
    op,          \* the get_next_node call just made, if it was the last step:
                 \* [name, ret, scanned]
    streak,      \* url -> report_failure calls since the last report_success,
                 \* followed for the first configured url only (0 for the
                 \* others): 0..3, Owed once there were 4, Served once
                 \* get_next_node has then found the node's deadline passed
    since_reset, \* url -> report_failure calls since the count was last zeroed
                 \* (by report_success or by a cooldown recovery)
    armed,       \* url -> Some(60 s after the latest report_failure that was the
                 \* 4th or later since the count was zeroed), None once recovered
    recent,      \* the urls returned by the latest get_next_node calls made
                 \* while no node was cooling down (at most Len(gm.nodes) of them)
    a_frags,     \* SpecAnalyze: the fragments the body is made of
    a_status,    \* SpecAnalyze: the `status` argument of analyze
    a_body,      \* SpecAnalyze: the `body` argument of analyze
    a_verdict,   \* SpecAnalyze: Some(the Verdict returned), None before the call
    profiles,    \* Config::profiles: profile name -> impersonation string
    pool_lock,   \* the Mutex around the GridManager: Some(worker) while locked
    pc,          \* worker -> its position in the loop of run()
    att,         \* worker -> the locals of its current loop iteration, and what
                 \* the iteration has done so far (counted, reported, ...)
    stats,       \* EngineStats: the four AtomicUsize counters
    baseline_hash, \* CoreEngine::baseline_hash: Option<u64>
    last_cookie, \* the contents of last_cookie.txt, None while it does not exist
    attempts,    \* loop iterations started so far
    build_failures, \* loop iterations that ended in the Err arm of create_client
    main_pc,     \* the engine task of main: "running" while run() awaits
                 \* ctrl_c, "returned" once run() has returned, "exited" after
                 \* process::exit
    esc          \* worker w -> while w waits for the solver: the workers that
                 \* acquired a node since (acq) and those of them that have
                 \* since reported a Success (done)

poolGhosts == <<held, op, streak, since_reset, armed, recent>>

poolVars == <<gm, now, held, op, streak, since_reset, armed, recent>>

analyzeVars == <<a_frags, a_status, a_body, a_verdict>>

VARIABLES
    h_toks,      \* SpecHash: the two bodies, each as a sequence of tokens
    h_body,      \* SpecHash: the two `html` arguments of hash
    h_out,       \* SpecHash: Some(the two hashes returned), None before
    s_stage,     \* SpecSolver: where BrowserSolver::solve is
    s_interact,  \* SpecSolver: Some(result of simulate_human_behavior)
    s_elapsed,   \* SpecSolver: start_time.elapsed(), in milliseconds
    s_env,       \* SpecSolver: the page and the cookie jar at the latest poll
    s_polls,     \* SpecSolver: iterations of the poll loop started so far
    s_ret        \* SpecSolver: Some(the Result solve returned)

hashVars == <<h_toks, h_body, h_out>>

solverVars == <<s_stage, s_interact, s_elapsed, s_env, s_polls, s_ret>>

pureVars == <<hashVars, solverVars>>

engineVars == <<profiles, pool_lock, pc, att, stats, baseline_hash, last_cookie,
                attempts, build_failures, main_pc, esc>>

vars == <<poolVars, analyzeVars, pureVars, engineVars>>

Workers == 1..NumWorkers

\* The locals of a loop iteration that has not done anything yet.
NoAttempt ==
    [proxy |-> None, client |-> "none", build |-> None, send |-> "none",
     status |-> None, current_hash |-> None, verdict |-> None,
     solved |-> None, counted |-> <<>>, reported |-> <<>>, solver_args |-> <<>>,
     written |-> <<>>]

NoEscalation == [acq |-> {}, done |-> {}]

\* EngineStats::default()
EngineStats_default ==
    [total_requests |-> 0, successful_requests |-> 0, blocked_requests |-> 0,
     failed_requests |-> 0]

\* The variables of Spec while another specification runs.
EngineIdle ==
    /\ profiles = <<>>
    /\ pool_lock = None
    /\ pc = [w \in Workers |-> "loop"]
    /\ att = [w \in Workers |-> NoAttempt]
    /\ stats = EngineStats_default
    /\ baseline_hash = None
    /\ last_cookie = None
    /\ attempts = 0
    /\ build_failures = 0
    /\ main_pc = "running"
    /\ esc = [w \in Workers |-> NoEscalation]

\* The variables of SpecHash while another specification runs.
HashIdle ==
    /\ h_toks = <<>>
    /\ h_body = <<>>
    /\ h_out = None

NoEnv == [content |-> Err(""), cookies |-> [ok |-> FALSE, val |-> <<>>]]

\* The variables of SpecSolver while another specification runs.
SolverIdle ==
    /\ s_stage = "idle"
    /\ s_interact = None
    /\ s_elapsed = 0
    /\ s_env = NoEnv
    /\ s_polls = 0
    /\ s_ret = None

PureIdle == HashIdle /\ SolverIdle

\* The variables of SpecAnalyze while another specification runs.
AnalyzeIdle ==
    /\ a_frags = {}
    /\ a_status = 0
    /\ a_body = ""
    /\ a_verdict = None

Urls == 1..MaxNodes

NoCall == [name |-> "none", ret |-> None, scanned |-> 0, recovered |-> FALSE]

Owed == THRESHOLD + 1

Served == THRESHOLD + 2

\* The url whose streak of failures is followed: the first one configured.
Watched == ProxyUrls[1]

Min(a, b) == IF a < b THEN a ELSE b

\* A node whose deadline is set and not yet reached.
CoolingDown(node, t) == \E c \in node.cooldown_until : t < c

\* A node whose deadline is set and reached (not yet cleared).
Expired(node, t) == \E c \in node.cooldown_until : t >= c

TotalHeld == LET RECURSIVE sum(_)
                 sum(k) == IF k = 0 THEN 0 ELSE held[k] + sum(k - 1)
             IN sum(MaxNodes)

LastN(s, n) == IF Len(s) <= n THEN s ELSE SubSeq(s, Len(s) - n + 1, Len(s))

(* ------------------- SpecPool: the pool and its callers ---------------- *)

\* CoreEngine::run builds the pool from network.proxies (0..MaxNodes urls).
PoolInit ==
    /\ gm \in {GridManager_new(SubSeq(ProxyUrls, 1, k)) : k \in 0..MaxNodes}
    /\ now = 0
    /\ held = [u \in Urls |-> 0]
    /\ op = NoCall
    /\ streak = [u \in Urls |-> 0]
    /\ since_reset = [u \in Urls |-> 0]
    /\ armed = [u \in Urls |-> None]
    /\ recent = <<>>
    /\ AnalyzeIdle
    /\ EngineIdle
    /\ PureIdle

\* A worker at the top of its loop locks the pool and calls get_next_node.
PoolGetNext ==
    /\ TotalHeld < NumWorkers
    /\ LET r == get_next_node(gm, now)
           cooling == \E i \in 1..Len(gm.nodes) : CoolingDown(gm.nodes[i], now)
           recovered == {u \in r.ret : \E i \in 1..Len(gm.nodes) :
                           gm.nodes[i].url = u /\ gm.nodes[i].cooldown_until # None}
       IN /\ gm' = r.gm
          /\ op' = [name |-> "get_next_node", ret |-> r.ret, scanned |-> r.scanned,
                    recovered |-> recovered # {}]
          /\ streak' = [u \in Urls |->
                 IF u \in recovered /\ streak[u] = Owed THEN Served ELSE streak[u]]
          /\ held' = [u \in Urls |-> IF u \in r.ret THEN held[u] + 1 ELSE held[u]]
          /\ since_reset' = [u \in Urls |->
                 IF u \in recovered THEN 0 ELSE since_reset[u]]
          /\ armed' = [u \in Urls |-> IF u \in recovered THEN None ELSE armed[u]]
          /\ recent' = IF cooling \/ r.ret = None THEN <<>>
                       ELSE LastN(recent \o <<CHOOSE u \in r.ret : TRUE>>,
                                  Len(gm.nodes))
    /\ UNCHANGED <<now, analyzeVars, pureVars, engineVars>>

\* A worker that holds url reports a failure (Blocked, solver failure or
\* transport failure).
PoolReportFailure(url) ==
    /\ held[url] > 0
    /\ gm' = report_failure(gm, url, now)
    /\ held' = [held EXCEPT ![url] = @ - 1]
    /\ op' = NoCall
    /\ streak' = [streak EXCEPT ![url] = IF url = Watched /\ @ < Owed THEN @ + 1 ELSE @]
    /\ since_reset' = [since_reset EXCEPT ![url] = @ + 1]
    /\ armed' = [armed EXCEPT ![url] =
                   IF since_reset[url] >= THRESHOLD THEN Some(now + COOLDOWN_SECS)
                   ELSE @]
    /\ UNCHANGED <<now, recent, analyzeVars, pureVars, engineVars>>

\* A worker that holds url reports a success (Success or solved challenge).
PoolReportSuccess(url) ==
    /\ held[url] > 0
    /\ gm' = report_success(gm, url)
    /\ held' = [held EXCEPT ![url] = @ - 1]
    /\ op' = NoCall
    /\ streak' = [streak EXCEPT ![url] = 0]
    /\ since_reset' = [since_reset EXCEPT ![url] = 0]
    /\ UNCHANGED <<now, armed, recent, analyzeVars, pureVars, engineVars>>

\* A worker whose client build failed drops url without a report.
PoolDrop(url) ==
    /\ held[url] > 0
    /\ held' = [held EXCEPT ![url] = @ - 1]
    /\ op' = NoCall
    /\ UNCHANGED <<gm, now, streak, since_reset, armed, recent, analyzeVars, pureVars, engineVars>>

\* Time passes, half a cooldown at a time.  The code reads the clock only to
\* compare it with a deadline and to set one, so the passing of time shows
\* only while some deadline is set: the clock is advanced only then.
Tick ==
    /\ now < MaxTicks * (COOLDOWN_SECS \div 2)
    /\ \E i \in 1..Len(gm.nodes) : gm.nodes[i].cooldown_until # None
    /\ now' = now + COOLDOWN_SECS \div 2
    /\ op' = NoCall
    /\ UNCHANGED <<gm, held, streak, since_reset, armed, recent, analyzeVars,
                   pureVars, engineVars>>

PoolNext ==
    \/ PoolGetNext
    \/ \E url \in Urls : PoolReportFailure(url)
    \/ \E url \in Urls : PoolReportSuccess(url)
    \/ \E url \in Urls : PoolDrop(url)
    \/ Tick

SpecPool == PoolInit /\ [][PoolNext]_vars

(* ---------------- SpecAnalyze: analyze on bounded inputs --------------- *)

\* The fragments bodies are made of, with what each one carries: a success
\* marker, a generic challenge signature, one half of the provider pair, a
\* block keyword, or nothing.
Fragments == <<
    [text |-> "OWASP Juice Shop",      tag |-> "success"],
    [text |-> "<app-root></app-root>", tag |-> "success"],
    [text |-> "Access Granted",        tag |-> "success"],
    [text |-> "access granted",        tag |-> "none"],
    [text |-> "Checking Your Browser", tag |-> "generic"],
    [text |-> "ENABLE JAVASCRIPT",     tag |-> "generic"],
    [text |-> "CloudFlare",            tag |-> "provider1"],
    [text |-> "Ray ID: 7f3a",          tag |-> "provider2"],
    [text |-> "Access Denied",         tag |-> "block"],
    [text |-> "Attention Required!",   tag |-> "block"],
    [text |-> "SECURITY CHECK",        tag |-> "block"],
    [text |-> "captcha",               tag |-> "none"] >>

\* The fragments of the set, in the order of Fragments, each followed by a
\* line break.
RECURSIVE BodyFrom(_, _)
BodyFrom(frags, i) ==
    IF i > Len(Fragments) THEN ""
    ELSE (IF i \in frags THEN Fragments[i].text \o "\n" ELSE "") \o BodyFrom(frags, i + 1)

Statuses == {199, 200, 299, 300, 403, 429, 500}

AnalyzeInit ==
    /\ a_frags \in {f \in SUBSET (1..Len(Fragments)) : Cardinality(f) <= MaxFragments}
    /\ a_status \in Statuses
    /\ a_body = BodyFrom(a_frags, 1)
    /\ a_verdict = None
    /\ gm = GridManager_new(<<>>)
    /\ now = 0
    /\ held = [u \in Urls |-> 0]
    /\ op = NoCall
    /\ streak = [u \in Urls |-> 0]
    /\ since_reset = [u \in Urls |-> 0]
    /\ armed = [u \in Urls |-> None]
    /\ recent = <<>>
    /\ EngineIdle
    /\ PureIdle

\* One call of ResponseAnalyzer::analyze.
AnalyzeCall ==
    /\ a_verdict = None
    /\ a_verdict' = Some(analyze(a_status, a_body))
    /\ UNCHANGED <<a_frags, a_status, a_body, poolVars, pureVars, engineVars>>

AnalyzeNext == AnalyzeCall

SpecAnalyze == AnalyzeInit /\ [][AnalyzeNext]_vars

(* --------------------- claims about the classifier -------------------- *)

\* The body was made with a fragment carrying the tag.
Carries(tag) == \E i \in a_frags : Fragments[i].tag = tag

\* The body carries a challenge marker: a generic signature, or both halves
\* of the provider pair.
CarriesChallenge ==
    Carries("generic") \/ (Carries("provider1") /\ Carries("provider2"))

\* C7 (success precedence): a body that carries a success marker is
\* classified Success, whatever the status and whatever else it carries.
C7_SuccessPrecedence ==
    \A v \in a_verdict : Carries("success") => v = Success

\* Witness of C7: a 403 response whose body carries a success marker, a
\* challenge marker and a block keyword has been classified Success.
C7_Witness ==
    /\ a_verdict = Some(Success)
    /\ a_status = 403
    /\ Carries("success") /\ Carries("generic") /\ Carries("block")

\* C8 (rule order): for a body with no success marker the first rule that
\* matches decides: challenge marker, then status 403 or 429, then block
\* keyword, then the 2xx range.
C8_RuleOrder ==
    \A v \in a_verdict :
        ~Carries("success") =>
            IF CarriesChallenge THEN v.kind = "Challenge"
            ELSE IF a_status = 403 THEN v = Blocked("HTTP 403")
            ELSE IF a_status = 429 THEN v = Blocked("HTTP 429")
            ELSE IF Carries("block") THEN v.kind = "Blocked"
            ELSE IF a_status >= 200 /\ a_status <= 299 THEN v = Success
            ELSE v.kind = "Blocked"

\* Witness of C8: a 429 response whose body carries a block keyword and one
\* half of the provider pair, but no challenge marker, has been classified
\* Blocked("HTTP 429").
C8_Witness ==
    /\ a_verdict = Some(Blocked("HTTP 429"))
    /\ Carries("block") /\ Carries("provider1")
    /\ ~Carries("success") /\ ~CarriesChallenge


\* The pool with its cursor moved to position c (0-based).
AtCursor(c) == [gm EXCEPT !.index = c]

\* The url is returned by no get_next_node call made now, whatever the cursor.
NeverReturned(url) ==
    \A c \in 0..(Len(gm.nodes) - 1) : get_next_node(AtCursor(c), now).ret # Some(url)

\* Node i is returned by a get_next_node call made now with the cursor on it.
ReturnedAt(i) == get_next_node(AtCursor(i - 1), now).ret = Some(gm.nodes[i].url)

\* The positions a scan starting at the cursor of g can stop on at time t: the
\* first node, in cyclic order from the cursor, that is not cooling down.
Landing(g, t) ==
    LET k == Len(g.nodes)
        pos(d) == ((g.index + d) % k) + 1
    IN {i \in 1..k : \E d \in 0..(k - 1) :
            /\ pos(d) = i
            /\ ~CoolingDown(g.nodes[i], t)
            /\ \A e \in 0..(d - 1) : CoolingDown(g.nodes[pos(e)], t)}

\* C1 (rotation fairness): when the last k get_next_node calls on a pool of k
\* nodes were all made while no node was cooling down, they returned the k
\* urls once each, in configuration order, cyclically, starting from the
\* node the cursor was on before the first of them (where it is again now).
C1_RotationFairness ==
    LET k == Len(gm.nodes) IN
    (k > 0 /\ Len(recent) = k) =>
        /\ \A j \in 1..k : recent[j] = gm.nodes[((gm.index + j - 1) % k) + 1].url
        /\ \A u \in {gm.nodes[i].url : i \in 1..k} :
               Cardinality({j \in 1..k : recent[j] = u}) = 1

\* Witness of C1: a full round on the largest pool that started from a cursor
\* other than 0, after some failure was reported.
C1_Witness ==
    /\ Len(gm.nodes) = MaxNodes
    /\ Len(recent) = MaxNodes
    /\ gm.index # 0
    /\ \E i \in 1..Len(gm.nodes) : gm.nodes[i].failures > 0

\* C2 as stated, for the first configured node: after 4 report_failure
\* calls for the node with no report_success in between, the node has a
\* cooldown deadline and is not returned until get_next_node has found that
\* deadline passed; after 3 or fewer such calls it is still returned.
C2_Original ==
    \A i \in 1..Len(gm.nodes) :
        LET node == gm.nodes[i]
            u == node.url
        IN u = Watched =>
              /\ streak[u] = Owed =>
                     /\ node.cooldown_until # None
                     /\ CoolingDown(node, now) => NeverReturned(u)
              /\ streak[u] <= THRESHOLD => ReturnedAt(i)

\* C2 amended: the node's failure count is the number of report_failure
\* calls since the count was last zeroed (by report_success or by a cooldown
\* recovery); once that number exceeds 3 the node has a deadline, 60 s after
\* the latest such call, and it has no deadline otherwise; a node is never
\* returned before its deadline and is returned when it has none or it has
\* passed.
C2_CooldownTrigger ==
    \A i \in 1..Len(gm.nodes) :
        LET node == gm.nodes[i]
            u == node.url
        IN /\ node.failures = since_reset[u]
           /\ node.cooldown_until = armed[u]
           /\ since_reset[u] > THRESHOLD => armed[u] # None
           /\ CoolingDown(node, now) => NeverReturned(u)
           /\ ~CoolingDown(node, now) => ReturnedAt(i)

\* Witness of C2: the 4th failure in a row has put a node in cooldown and a
\* get_next_node call has skipped it and returned another node.
C2_Witness ==
    \E i \in 1..Len(gm.nodes) :
        LET u == gm.nodes[i].url IN
        /\ since_reset[u] = THRESHOLD + 1
        /\ streak[u] = Owed
        /\ CoolingDown(gm.nodes[i], now)
        /\ op.name = "get_next_node"
        /\ op.ret # None /\ op.ret # Some(u)
        /\ op.scanned = 2

\* C3 (cooldown recovery): a get_next_node call whose scan stops on a node
\* with a deadline that has passed clears that deadline, zeroes that node's
\* failure count and returns that node.
C3_CooldownRecovery ==
    [][PoolGetNext =>
         \A i \in Landing(gm, now) :
             Expired(gm.nodes[i], now) =>
                 /\ gm'.nodes[i].cooldown_until = None
                 /\ gm'.nodes[i].failures = 0
                 /\ op'.ret = Some(gm.nodes[i].url)]_vars

\* Witness of C3: a call has just found the deadline of a node passed, after
\* skipping another node that is cooling down, and returned the node with
\* its count and deadline clear.
C3_Witness ==
    \E i \in 1..Len(gm.nodes) :
        LET u == gm.nodes[i].url IN
        /\ op.name = "get_next_node"
        /\ op.recovered
        /\ op.ret = Some(u)
        /\ op.scanned = 2
        /\ streak[u] = Served
        /\ gm.nodes[i].failures = 0
        /\ gm.nodes[i].cooldown_until = None

\* C4 (starvation bound): every get_next_node call inspects at most
\* Len(nodes) nodes; when every node is cooling down it returns None after
\* inspecting each node once; on an empty pool it returns None after
\* inspecting nothing.
C4_StarvationBound ==
    [][PoolGetNext =>
         LET k == Len(gm.nodes) IN
         /\ op'.scanned <= k
         /\ k = 0 => (op'.ret = None /\ op'.scanned = 0)
         /\ (k > 0 /\ \A i \in 1..k : CoolingDown(gm.nodes[i], now)) =>
                (op'.ret = None /\ op'.scanned = k)]_vars

\* Witness of C4: on the largest pool a call that started from a cursor
\* other than 0 has inspected every node and returned None.
C4_Witness ==
    /\ Len(gm.nodes) = MaxNodes
    /\ op.name = "get_next_node"
    /\ op.ret = None
    /\ op.scanned = MaxNodes
    /\ gm.index # 0

(* ------------------- Spec: the workers of run() ----------------------- *)

\* Within MaxAttempts loop iterations no get_next_node call follows a 4th
\* failure report, so no call meets a deadline and the clock is never read
\* against one: Spec has no Tick step (cooldown in time is SpecPool's).

\* The responses the target gives: (status, body).
Responses == {
    [status |-> 200, body |-> "<html><app-root></app-root></html>"],
    [status |-> 200, body |-> "<html><p>Checking your browser</p></html>"],
    [status |-> 403, body |-> "<html>Forbidden</html>"] }

\* For each response, what the worker computes from it:
\* `StructuralHasher::hash(&body_str)` and `ResponseAnalyzer::analyze(status,
\* &body_str, ..)`.
Computed ==
    [resp \in Responses |->
        [current_hash |-> StructuralHasher_hash(resp.body),
         verdict |-> analyze(resp.status, resp.body)]]

\* What `spawn_blocking(BrowserSolver::solve).await` gives: Ok(Ok(cookies)),
\* Ok(Err(browser launch failed)), Ok(Err(timeout)), Err(JoinError).
SolverResults == {"Ok", "LaunchError", "Timeout", "JoinError"}

\* The cookie string the solver returns to worker w.
Credential(w) == "sid=" \o ToString(w)

\* What the solved arm's `File::create("last_cookie.txt")` and `write_all`
\* give: the file is created and written; it is created (and so emptied) and
\* the write fails; it cannot be created. The arm ignores both errors.
FileResults == {"written", "truncated", "no_file"}

\* The profile mappings a configuration may hold.
ProfileMaps == { [k \in {"desktop"} |-> "chrome_130"], [k \in {"mobile"} |-> "safari_16"] }

Bump(st, counter) == [st EXCEPT ![counter] = @ + 1]

Acquired(w) == CHOOSE u \in att[w].proxy : TRUE

\* CoreEngine::new and the start of run(): the pool is built from the
\* configured proxies, every worker is at the top of its loop.
Init ==
    /\ gm \in {GridManager_new(SubSeq(ProxyUrls, 1, k)) : k \in 0..MaxNodes}
    /\ now = 0
    /\ held = [u \in Urls |-> 0]
    /\ op = NoCall
    /\ streak = [u \in Urls |-> 0]
    /\ since_reset = [u \in Urls |-> 0]
    /\ armed = [u \in Urls |-> None]
    /\ recent = <<>>
    /\ AnalyzeIdle
    /\ PureIdle
    /\ profiles \in ProfileMaps
    /\ pool_lock = None
    /\ pc = [w \in Workers |-> "loop"]
    /\ att = [w \in Workers |-> NoAttempt]
    /\ stats = EngineStats_default
    /\ baseline_hash = None
    /\ last_cookie = None
    /\ attempts = 0
    /\ build_failures = 0
    /\ main_pc = "running"
    /\ esc = [w \in Workers |-> NoEscalation]

\* `let mut gm = grid_manager.lock().unwrap();` at the top of the loop.
LockGet(w) ==
    /\ pc[w] = "loop"
    /\ attempts < MaxAttempts
    /\ pool_lock = None
    /\ pool_lock' = Some(w)
    /\ pc' = [pc EXCEPT ![w] = "get_node"]
    /\ attempts' = attempts + 1
    /\ UNCHANGED <<analyzeVars, pureVars, main_pc, poolGhosts, gm, now, profiles, att, stats,
                   baseline_hash, last_cookie, build_failures, esc>>

\* Mutant of GetNode: the guard is bound in the loop body and not in a block
\* of its own, so the worker keeps the pool lock after the call.
GetNode_holds_lock(w) ==
    /\ pc[w] = "get_node"
    /\ LET r == get_next_node(gm, now) IN
       /\ gm' = r.gm
       /\ att' = [att EXCEPT ![w].proxy = r.ret]
       /\ pc' = [pc EXCEPT ![w] = IF r.ret = None THEN "retry_sleep" ELSE "build"]
       /\ esc' = [x \in Workers |->
                    IF pc[x] = "solving" /\ r.ret # None
                    THEN [esc[x] EXCEPT !.acq = @ \cup {w}]
                    ELSE [esc[x] EXCEPT !.acq = @ \ {w}]]
    /\ UNCHANGED <<analyzeVars, pureVars, main_pc, poolGhosts, now, profiles, pool_lock, stats, baseline_hash,
                   last_cookie, attempts, build_failures>>

\* `gm.get_next_node()` and the end of the block, which unlocks the pool.
GetNode(w) ==
    /\ pc[w] = "get_node"
    /\ LET r == get_next_node(gm, now) IN
       /\ gm' = r.gm
       /\ att' = [att EXCEPT ![w].proxy = r.ret]
       /\ pc' = [pc EXCEPT ![w] = IF r.ret = None THEN "retry_sleep" ELSE "build"]
       /\ esc' = [x \in Workers |->
                    IF pc[x] = "solving" /\ r.ret # None
                    THEN [esc[x] EXCEPT !.acq = @ \cup {w}]
                    ELSE [esc[x] EXCEPT !.acq = @ \ {w}]]
    /\ pool_lock' = None
    /\ UNCHANGED <<analyzeVars, pureVars, main_pc, poolGhosts, now, profiles, stats, baseline_hash, last_cookie, attempts,
                   build_failures>>

\* Mutant of BuildClient: the Err arm reports a failure of the node as well.
BuildClient_reports_failure(w) ==
    /\ pc[w] = "build"
    /\ \E transport_ok \in BOOLEAN :
         LET client_res == create_client(profiles, "desktop", transport_ok) IN
         IF client_res.ok
         THEN /\ stats' = Bump(stats, "total_requests")
              /\ att' = [att EXCEPT ![w].client = "ok",
                                    ![w].build = Some(client_res),
                                    ![w].counted = Append(@, "total_requests")]
              /\ pc' = [pc EXCEPT ![w] = "send"]
              /\ UNCHANGED <<build_failures, gm>>
         ELSE /\ stats' = Bump(stats, "failed_requests")
              /\ att' = [att EXCEPT ![w].client = "err",
                                    ![w].build = Some(client_res),
                                    ![w].counted = Append(@, "failed_requests")]
              /\ pc' = [pc EXCEPT ![w] = "sleep"]
              /\ build_failures' = build_failures + 1
              /\ gm' = report_failure(gm, Acquired(w), now)
    /\ UNCHANGED <<analyzeVars, pureVars, main_pc, poolGhosts, now, profiles, pool_lock, baseline_hash, last_cookie,
                   attempts, esc>>

\* Mutant of BuildClient: the Err arm counts the attempt in total_requests
\* as well.
BuildClient_counts_total(w) ==
    /\ pc[w] = "build"
    /\ \E transport_ok \in BOOLEAN :
         LET client_res == create_client(profiles, "desktop", transport_ok) IN
         IF client_res.ok
         THEN /\ stats' = Bump(stats, "total_requests")
              /\ att' = [att EXCEPT ![w].client = "ok",
                                    ![w].build = Some(client_res),
                                    ![w].counted = Append(@, "total_requests")]
              /\ pc' = [pc EXCEPT ![w] = "send"]
              /\ UNCHANGED build_failures
         ELSE /\ stats' = Bump(Bump(stats, "total_requests"), "failed_requests")
              /\ att' = [att EXCEPT ![w].client = "err",
                                    ![w].build = Some(client_res),
                                    ![w].counted = Append(@, "failed_requests")]
              /\ pc' = [pc EXCEPT ![w] = "sleep"]
              /\ build_failures' = build_failures + 1
    /\ UNCHANGED <<analyzeVars, pureVars, main_pc, poolGhosts, gm, now, profiles, pool_lock, baseline_hash, last_cookie,
                   attempts, esc>>

\* `client_factory.create_client("desktop", Some(&proxy_url))` and its match:
\* Ok counts the attempt in total_requests, Err counts it in failed_requests.
BuildClient(w) ==
    /\ pc[w] = "build"
    /\ \E transport_ok \in BOOLEAN :
         LET client_res == create_client(profiles, "desktop", transport_ok) IN
         IF client_res.ok
         THEN /\ stats' = Bump(stats, "total_requests")
              /\ att' = [att EXCEPT ![w].client = "ok",
                                    ![w].build = Some(client_res),
                                    ![w].counted = Append(@, "total_requests")]
              /\ pc' = [pc EXCEPT ![w] = "send"]
              /\ UNCHANGED build_failures
         ELSE /\ stats' = Bump(stats, "failed_requests")
              /\ att' = [att EXCEPT ![w].client = "err",
                                    ![w].build = Some(client_res),
                                    ![w].counted = Append(@, "failed_requests")]
              /\ pc' = [pc EXCEPT ![w] = "sleep"]
              /\ build_failures' = build_failures + 1
    /\ UNCHANGED <<analyzeVars, pureVars, main_pc, poolGhosts, gm, now, profiles, pool_lock, baseline_hash, last_cookie,
                   attempts, esc>>

\* Mutant of NetworkError: the Err arm leaves the loop (the task ends).
NetworkError_exits(w) ==
    /\ pc[w] = "send"
    /\ att' = [att EXCEPT ![w].send = "err"]
    /\ pc' = [pc EXCEPT ![w] = "terminated"]
    /\ UNCHANGED <<analyzeVars, pureVars, main_pc, poolGhosts, gm, now, profiles, pool_lock, stats, baseline_hash, last_cookie,
                   attempts, build_failures, esc>>

\* `client.get(&target_url).send().await` gives Err(e).
NetworkError(w) ==
    /\ pc[w] = "send"
    /\ att' = [att EXCEPT ![w].send = "err"]
    /\ pc' = [pc EXCEPT ![w] = "outcome"]
    /\ UNCHANGED <<analyzeVars, pureVars, main_pc, poolGhosts, gm, now, profiles, pool_lock, stats, baseline_hash, last_cookie,
                   attempts, build_failures, esc>>

\* Mutant of Respond: the baseline is stored from every response with
\* status 200, also when one is stored already.
Respond_relearns(w) ==
    /\ pc[w] = "send"
    /\ \E resp \in Responses :
         LET current_hash == Computed[resp].current_hash
             verdict == Computed[resp].verdict
         IN
         /\ baseline_hash' = IF resp.status = 200
                             THEN Some(current_hash)
                             ELSE baseline_hash
         /\ att' = [att EXCEPT ![w].send = "ok",
                               ![w].status = Some(resp.status),
                               ![w].current_hash = Some(current_hash),
                               ![w].verdict = Some(verdict)]
         /\ pc' = [pc EXCEPT ![w] =
                     IF verdict.kind = "Challenge" THEN "challenge" ELSE "outcome"]
    /\ UNCHANGED <<analyzeVars, pureVars, main_pc, poolGhosts, gm, now, profiles, pool_lock, stats, last_cookie, attempts,
                   build_failures, esc>>

\* The request gives Ok(resp): the body is hashed, the baseline block runs
\* under the baseline lock, and the response is classified.
Respond(w) ==
    /\ pc[w] = "send"
    /\ \E resp \in Responses :
         LET current_hash == Computed[resp].current_hash
             verdict == Computed[resp].verdict
         IN
         /\ baseline_hash' = IF baseline_hash = None /\ resp.status = 200
                             THEN Some(current_hash)
                             ELSE baseline_hash
         /\ att' = [att EXCEPT ![w].send = "ok",
                               ![w].status = Some(resp.status),
                               ![w].current_hash = Some(current_hash),
                               ![w].verdict = Some(verdict)]
         /\ pc' = [pc EXCEPT ![w] =
                     IF verdict.kind = "Challenge" THEN "challenge" ELSE "outcome"]
    /\ UNCHANGED <<analyzeVars, pureVars, main_pc, poolGhosts, gm, now, profiles, pool_lock, stats, last_cookie, attempts,
                   build_failures, esc>>

\* Mutant of Escalate: the Challenge arm takes the pool lock before it starts
\* the solver and holds it across the await.
Escalate_locked(w) ==
    /\ pc[w] = "challenge"
    /\ pool_lock = None
    /\ pool_lock' = Some(w)
    /\ att' = [att EXCEPT ![w].solver_args = Append(@, Acquired(w))]
    /\ pc' = [pc EXCEPT ![w] = "solving"]
    /\ esc' = [esc EXCEPT ![w] = NoEscalation]
    /\ UNCHANGED <<analyzeVars, pureVars, main_pc, poolGhosts, gm, now, profiles, stats, baseline_hash, last_cookie,
                   attempts, build_failures>>

\* The Challenge arm up to `spawn_blocking(..).await`: the solver starts with
\* clones of the target url and of the worker's proxy url.
Escalate(w) ==
    /\ pc[w] = "challenge"
    /\ att' = [att EXCEPT ![w].solver_args = Append(@, Acquired(w))]
    /\ pc' = [pc EXCEPT ![w] = "solving"]
    /\ esc' = [esc EXCEPT ![w] = NoEscalation]
    /\ UNCHANGED <<analyzeVars, pureVars, main_pc, poolGhosts, gm, now, profiles, pool_lock, stats, baseline_hash, last_cookie,
                   attempts, build_failures>>

\* The blocking task ends and the worker resumes with its result.
SolverReturns(w) ==
    /\ pc[w] = "solving"
    /\ \E res \in SolverResults : att' = [att EXCEPT ![w].solved = Some(res)]
    /\ pc' = [pc EXCEPT ![w] = "outcome"]
    /\ esc' = [esc EXCEPT ![w] = NoEscalation]
    /\ UNCHANGED <<analyzeVars, pureVars, main_pc, poolGhosts, gm, now, profiles, pool_lock, stats, baseline_hash, last_cookie,
                   attempts, build_failures>>

\* Mutant of RecordOutcome: the arm of a failed escalation increments no
\* counter.
RecordOutcome_skips_solver_failure(w) ==
    /\ pc[w] = "outcome"
    /\ LET outcome == outcome_of(att[w]) IN
       /\ stats' = IF outcome = "SolverFailed" THEN stats
                   ELSE Bump(stats, counter_of(outcome))
       /\ IF outcome = "Solved"
          THEN \E file \in FileResults :
               /\ last_cookie' = CASE file = "written" -> Some(Credential(w))
                                    [] file = "truncated" -> Some("")
                                    [] file = "no_file" -> last_cookie
               /\ att' = [att EXCEPT ![w].written = IF file = "written"
                                                    THEN Append(@, Credential(w))
                                                    ELSE @,
                                     ![w].counted = Append(@, counter_of(outcome))]
          ELSE /\ last_cookie' = last_cookie
               /\ att' = [att EXCEPT ![w].counted = Append(@, counter_of(outcome))]
    /\ pc' = [pc EXCEPT ![w] = "lock_report"]
    /\ UNCHANGED <<analyzeVars, pureVars, main_pc, poolGhosts, gm, now, profiles, pool_lock, baseline_hash, attempts,
                   build_failures, esc>>

\* The arm of the outcome up to its `grid_manager.lock()`: the solved arm
\* writes last_cookie.txt, every arm increments its counter.
RecordOutcome(w) ==
    /\ pc[w] = "outcome"
    /\ LET outcome == outcome_of(att[w]) IN
       /\ stats' = Bump(stats, counter_of(outcome))
       /\ IF outcome = "Solved"
          THEN \E file \in FileResults :
               /\ last_cookie' = CASE file = "written" -> Some(Credential(w))
                                    [] file = "truncated" -> Some("")
                                    [] file = "no_file" -> last_cookie
               /\ att' = [att EXCEPT ![w].written = IF file = "written"
                                                    THEN Append(@, Credential(w))
                                                    ELSE @,
                                     ![w].counted = Append(@, counter_of(outcome))]
          ELSE /\ last_cookie' = last_cookie
               /\ att' = [att EXCEPT ![w].counted = Append(@, counter_of(outcome))]
    /\ pc' = [pc EXCEPT ![w] = "lock_report"]
    /\ UNCHANGED <<analyzeVars, pureVars, main_pc, poolGhosts, gm, now, profiles, pool_lock, baseline_hash, attempts,
                   build_failures, esc>>

\* `let mut gm = grid_manager.lock().unwrap();` in the arm.
LockReport(w) ==
    /\ pc[w] = "lock_report"
    /\ pool_lock = None
    /\ pool_lock' = Some(w)
    /\ pc' = [pc EXCEPT ![w] = "report"]
    /\ UNCHANGED <<analyzeVars, pureVars, main_pc, poolGhosts, gm, now, profiles, att, stats, baseline_hash, last_cookie,
                   attempts, build_failures, esc>>

\* `gm.report_success(&proxy_url)` or `gm.report_failure(&proxy_url)` and the
\* end of the arm, which unlocks the pool.
Report(w) ==
    /\ pc[w] = "report"
    /\ LET call == report_of(outcome_of(att[w])) IN
       /\ gm' = IF call = "report_success"
                THEN report_success(gm, Acquired(w))
                ELSE report_failure(gm, Acquired(w), now)
       /\ att' = [att EXCEPT ![w].reported =
                     Append(@, [call |-> call, url |-> Acquired(w)])]
       /\ esc' = [x \in Workers |->
                    IF pc[x] = "solving" /\ w \in esc[x].acq
                       /\ outcome_of(att[w]) = "Success"
                    THEN [acq |-> esc[x].acq \ {w}, done |-> esc[x].done \cup {w}]
                    ELSE [esc[x] EXCEPT !.acq = @ \ {w}]]
    /\ pool_lock' = None
    /\ pc' = [pc EXCEPT ![w] = "sleep"]
    /\ UNCHANGED <<analyzeVars, pureVars, main_pc, poolGhosts, now, profiles, stats, baseline_hash, last_cookie, attempts,
                   build_failures>>

\* `tokio::time::sleep(Duration::from_millis(100)).await` when no node was
\* available.
RetrySleep(w) ==
    /\ pc[w] = "retry_sleep"
    /\ pc' = [pc EXCEPT ![w] = "sleep"]
    /\ UNCHANGED <<analyzeVars, pureVars, main_pc, poolGhosts, gm, now, profiles, pool_lock, att, stats, baseline_hash,
                   last_cookie, attempts, build_failures, esc>>

\* `tokio::time::sleep(Duration::from_millis(50)).await` and the end of the
\* iteration, where its locals are dropped.
Sleep(w) ==
    /\ pc[w] = "sleep"
    /\ pc' = [pc EXCEPT ![w] = "loop"]
    /\ att' = [att EXCEPT ![w] = NoAttempt]
    /\ UNCHANGED <<analyzeVars, pureVars, main_pc, poolGhosts, gm, now, profiles, pool_lock, stats,
                   baseline_hash, last_cookie, attempts, build_failures, esc>>

\* One step of worker w.
WorkerStep(w) ==
    \/ LockGet(w)
    \/ GetNode(w)
    \/ BuildClient(w)
    \/ NetworkError(w)
    \/ Respond(w)
    \/ Escalate(w)
    \/ SolverReturns(w)
    \/ RecordOutcome(w)
    \/ LockReport(w)
    \/ Report(w)
    \/ RetrySleep(w)
    \/ Sleep(w)


Next ==
    \/ \E w \in Workers : LockGet(w)
    \/ \E w \in Workers : GetNode(w)
    \/ \E w \in Workers : BuildClient(w)
    \/ \E w \in Workers : NetworkError(w)
    \/ \E w \in Workers : Respond(w)
    \/ \E w \in Workers : Escalate(w)
    \/ \E w \in Workers : SolverReturns(w)
    \/ \E w \in Workers : RecordOutcome(w)
    \/ \E w \in Workers : LockReport(w)
    \/ \E w \in Workers : Report(w)
    \/ \E w \in Workers : RetrySleep(w)
    \/ \E w \in Workers : Sleep(w)

Spec == Init /\ [][Next]_vars

(* --------- SpecInterrupt: the workers, the signal and the exit -------- *)

\* `tokio::signal::ctrl_c().await` resolves (with the signal, or with an
\* error that is printed) and run() returns Ok(()): the engine task spawned
\* by main ends.  The worker tasks were spawned detached and run on.
Interrupt ==
    /\ main_pc = "running"
    /\ main_pc' = "returned"
    /\ UNCHANGED <<poolVars, analyzeVars, pureVars, profiles, pool_lock, pc, att, stats,
                   baseline_hash, last_cookie, attempts, build_failures, esc>>

\* The dashboard's run() returns (key 'q') and main calls process::exit(0):
\* every task of the process is gone, wherever it was.
TuiQuit ==
    /\ main_pc \in {"running", "returned"}
    /\ main_pc' = "exited"
    /\ pc' = [w \in Workers |-> "killed"]
    /\ UNCHANGED <<poolVars, analyzeVars, pureVars, profiles, pool_lock, att, stats,
                   baseline_hash, last_cookie, attempts, build_failures, esc>>

InterruptNext ==
    \/ \E w \in Workers : LockGet(w)
    \/ \E w \in Workers : GetNode(w)
    \/ \E w \in Workers : BuildClient(w)
    \/ \E w \in Workers : NetworkError(w)
    \/ \E w \in Workers : Respond(w)
    \/ \E w \in Workers : Escalate(w)
    \/ \E w \in Workers : SolverReturns(w)
    \/ \E w \in Workers : RecordOutcome(w)
    \/ \E w \in Workers : LockReport(w)
    \/ \E w \in Workers : Report(w)
    \/ \E w \in Workers : RetrySleep(w)
    \/ \E w \in Workers : Sleep(w)
    \/ Interrupt
    \/ TuiQuit

SpecInterrupt == Init /\ [][InterruptNext]_vars

(* ---------------------- claims about the workers ---------------------- *)

\* The positions between `total_requests.fetch_add` and the increment of the
\* outcome's counter.
InFlight(w) == pc[w] \in {"send", "challenge", "solving", "outcome"}

Quiescent == \A w \in Workers : ~InFlight(w)

\* The iteration of w is over (the worker is in its final sleep) and its
\* client was built.
Finished(w) == pc[w] = "sleep" /\ att[w].client = "ok"

OneReport(call, w) == <<[call |-> call, url |-> Acquired(w)]>>

\* C5 (counter consistency): in a quiescent state total == success + blocked
\* + failed - (client-build failures), which is success + blocked + failed
\* when every client was built; an iteration that ended at the client build
\* has incremented failed_requests and nothing else.
C5_CounterConsistency ==
    /\ Quiescent =>
          stats.total_requests =
              stats.successful_requests + stats.blocked_requests
              + stats.failed_requests - build_failures
    /\ \A w \in Workers :
          att[w].client = "err" =>
              /\ att[w].counted = <<"failed_requests">>
              /\ att[w].reported = <<>>

\* Witness of C5: a quiescent state after a client-build failure and a
\* counted attempt, where total differs from the sum of the other three.
C5_Witness ==
    /\ Quiescent
    /\ build_failures = 1
    /\ stats.total_requests = 1
    /\ stats.failed_requests = 2

\* C6 (escalation isolation): a worker that waits for the solver holds no
\* lock of the pool, and blocks no other worker: every other worker that is
\* not itself waiting for a solver can take its next step, unless it waits
\* for the pool lock while a worker inside a pool call holds it, or the
\* bound on loop iterations is used up.
C6_EscalationIsolation ==
    \A w \in Workers :
        pc[w] = "solving" =>
            /\ pool_lock # Some(w)
            /\ \A v \in Workers \ {w} :
                  \/ pc[v] = "solving"
                  \/ ENABLED WorkerStep(v)
                  \/ /\ pc[v] \in {"loop", "lock_report"}
                     /\ \E u \in Workers \ {w, v} :
                           pool_lock = Some(u) /\ pc[u] \in {"get_node", "report"}
                  \/ pc[v] = "loop" /\ attempts = MaxAttempts

\* Witness of C6: while w waits for the solver, another worker has acquired
\* a node, completed its attempt and reported a Success.
C6_Witness ==
    \E w \in Workers :
        /\ pc[w] = "solving"
        /\ \E v \in esc[w].done :
              /\ pc[v] = "sleep"
              /\ stats.successful_requests = 1

\* C9 (outcome mapping): an iteration that built its client and ended with
\* a Success verdict has incremented successful_requests and called
\* report_success; with a Blocked verdict, blocked_requests and
\* report_failure; with a transport failure, failed_requests and
\* report_failure: one outcome counter (after total_requests) and one report
\* call, on the node the iteration acquired.
C9_OutcomeMapping ==
    \A w \in Workers :
        Finished(w) =>
            LET outcome == outcome_of(att[w]) IN
            /\ outcome = "Success" =>
                  /\ att[w].counted = <<"total_requests", "successful_requests">>
                  /\ att[w].reported = OneReport("report_success", w)
            /\ outcome = "Blocked" =>
                  /\ att[w].counted = <<"total_requests", "blocked_requests">>
                  /\ att[w].reported = OneReport("report_failure", w)
            /\ outcome = "NetworkError" =>
                  /\ att[w].counted = <<"total_requests", "failed_requests">>
                  /\ att[w].reported = OneReport("report_failure", w)

\* Witness of C9: one iteration has ended Blocked and another with a
\* transport failure, behind the same node: its failure count is 2.
C9_Witness ==
    \E w, v \in Workers :
        /\ Finished(w) /\ outcome_of(att[w]) = "Blocked"
        /\ Finished(v) /\ outcome_of(att[v]) = "NetworkError"
        /\ att[w].proxy = att[v].proxy
        /\ \E i \in 1..Len(gm.nodes) :
              gm.nodes[i].url = Acquired(w) /\ gm.nodes[i].failures = 2
        /\ stats.blocked_requests = 1 /\ stats.failed_requests = 1

\* C10 (escalation outcome), as claimed: the solver runs only after a
\* Challenge verdict and with the node the iteration acquired; an iteration
\* whose solver returned a credential has written it to last_cookie.txt (the
\* file holds a credential and the iteration's was written), incremented
\* successful_requests and called report_success on the node; one whose
\* solver failed (launch error, timeout, crashed task) has written nothing,
\* incremented blocked_requests and called report_failure on the node.
C10_EscalationOutcome ==
    \A w \in Workers :
        /\ (att[w].solver_args # <<>> \/ pc[w] = "solving") =>
              /\ \E v \in att[w].verdict : v.kind = "Challenge"
              /\ att[w].solver_args = <<Acquired(w)>>
        /\ att[w].solved # None => att[w].solver_args # <<>>
        /\ Finished(w) /\ outcome_of(att[w]) = "Solved" =>
              /\ att[w].written = <<Credential(w)>>
              /\ last_cookie # None
              /\ att[w].counted = <<"total_requests", "successful_requests">>
              /\ att[w].reported = OneReport("report_success", w)
        /\ Finished(w) /\ outcome_of(att[w]) = "SolverFailed" =>
              /\ att[w].written = <<>>
              /\ att[w].counted = <<"total_requests", "blocked_requests">>
              /\ att[w].reported = OneReport("report_failure", w)

\* C11 (client-build failure leaves node health untouched): the step in
\* which building the client fails increments failed_requests and no other
\* counter, leaves the pool (every node's failure count and deadline, the
\* cursor) as it was and makes no report call; the worker goes to the sleep
\* that ends the iteration, and its next step is the top of the loop.
C11_BuildFailureFrame ==
    [][\A w \in Workers :
          /\ (pc[w] = "build" /\ pc'[w] # "build" /\ att'[w].client = "err") =>
                /\ gm' = gm
                /\ stats' = Bump(stats, "failed_requests")
                /\ att'[w].reported = <<>>
                /\ pc'[w] = "sleep"
          /\ (att[w].client = "err" /\ pc'[w] # pc[w]) =>
                /\ pc[w] = "sleep" /\ pc'[w] = "loop"
                /\ gm' = gm /\ stats' = stats
                /\ att[w].reported = <<>>]_vars

\* Witness of C11: a client build has failed for a node that an earlier
\* transport failure left with a failure count of 1, and the count is 1.
C11_Witness ==
    \E w \in Workers :
        /\ att[w].client = "err" /\ pc[w] = "sleep"
        /\ stats.failed_requests = 2 /\ stats.total_requests = 1
        /\ \E i \in 1..Len(gm.nodes) :
              /\ gm.nodes[i].url = Acquired(w)
              /\ gm.nodes[i].failures = 1
              /\ gm.nodes[i].cooldown_until = None

\* C12 (identity fallback policy), as claimed: when the profile name the
\* worker asks for ("desktop") is absent from the loaded profile mapping,
\* create_client falls back to the default identity: it still gives a client,
\* with the default emulation, and fails only if the transport cannot be
\* built.
C12_IdentityFallback ==
    \A w \in Workers : \A client_res \in att[w].build :
        "desktop" \notin DOMAIN profiles =>
            IF client_res.ok
            THEN client_res.val = emulation_of("")
            ELSE client_res.val = "Failed to build TLS client"

(* ------------- SpecHash: StructuralHasher::hash on two bodies --------- *)

\* What bodies are made of: whole tags, and runs of text (which hold no '<').
Tokens == <<
    [text |-> "<div>",   markup |-> TRUE],
    [text |-> "</div>",  markup |-> TRUE],
    [text |-> "<span>",  markup |-> TRUE],
    [text |-> "</span>", markup |-> TRUE],
    [text |-> "A",       markup |-> FALSE],
    [text |-> "x > y",   markup |-> FALSE] >>

TokenSeqs == UNION {[1..n -> 1..Len(Tokens)] : n \in 0..MaxTokens}

\* <div>A</div> and <div>x > y</div>; <div><span></span></div> and
\* <span><div></div></span>.
ExamplePairs == { <<(<<1, 5, 2>>), (<<1, 6, 2>>)>>, <<(<<1, 3, 4, 2>>), (<<3, 1, 2, 4>>)>> }

RECURSIVE BodyOf(_)
BodyOf(toks) ==
    IF toks = <<>> THEN "" ELSE Tokens[Head(toks)].text \o BodyOf(Tail(toks))

IsMarkup(t) == Tokens[t].markup

\* The tags of a body, in order.
TagsOf(toks) == SelectSeq(toks, IsMarkup)

HashInit ==
    /\ h_toks \in (TokenSeqs \X TokenSeqs) \cup ExamplePairs
    /\ h_body = <<BodyOf(h_toks[1]), BodyOf(h_toks[2])>>
    /\ h_out = None
    /\ SolverIdle
    /\ AnalyzeIdle
    /\ gm = GridManager_new(<<>>)
    /\ now = 0
    /\ held = [u \in Urls |-> 0]
    /\ op = NoCall
    /\ streak = [u \in Urls |-> 0]
    /\ since_reset = [u \in Urls |-> 0]
    /\ armed = [u \in Urls |-> None]
    /\ recent = <<>>
    /\ profiles = <<>>
    /\ pool_lock = None
    /\ pc = [w \in Workers |-> "loop"]
    /\ att = [w \in Workers |-> NoAttempt]
    /\ stats = EngineStats_default
    /\ baseline_hash = None
    /\ last_cookie = None
    /\ attempts = 0
    /\ build_failures = 0
    /\ main_pc = "running"
    /\ esc = [w \in Workers |-> NoEscalation]

\* StructuralHasher::hash called on each of the two bodies.
HashCall ==
    /\ h_out = None
    /\ h_out' = Some(<<StructuralHasher_hash(h_body[1]), StructuralHasher_hash(h_body[2])>>)
    /\ UNCHANGED <<h_toks, h_body, solverVars, poolVars, analyzeVars, engineVars>>

HashNext == HashCall

SpecHash == HashInit /\ [][HashNext]_vars

\* C13 (the skeleton hash depends only on in-tag characters): two bodies
\* with the same tags in the same order, whatever text stands between them,
\* have equal hashes; two bodies whose tags differ (reordered, added,
\* removed) have different hashes.
C13_SkeletonHash ==
    \A out \in h_out :
        (out[1] = out[2]) <=> (TagsOf(h_toks[1]) = TagsOf(h_toks[2]))

\* Witness of C13: <div>A</div> and <div>x > y</div> have been hashed, and
\* the hashes are equal.
C13_Witness ==
    /\ h_body = <<"<div>A</div>", "<div>x > y</div>">>
    /\ \E out \in h_out : out[1] = out[2]

(* ------------------ more claims about the workers -------------------- *)

\* The positions of the loop of run(), each with the number of steps the
\* worker is at most away from the top of the loop.
Rank(p) ==
    CASE p = "loop" -> 0
      [] p = "sleep" -> 1
      [] p = "retry_sleep" -> 2
      [] p = "report" -> 2
      [] p = "lock_report" -> 3
      [] p = "outcome" -> 4
      [] p = "solving" -> 5
      [] p = "challenge" -> 6
      [] p = "send" -> 7
      [] p = "build" -> 8
      [] p = "get_node" -> 9
      [] OTHER -> 99

LoopPositions ==
    {"loop", "get_node", "build", "send", "challenge", "solving", "outcome",
     "lock_report", "report", "retry_sleep", "sleep"}

\* Worker w waits for the pool mutex, which a worker inside a pool call holds.
WaitsForPool(w) ==
    /\ pc[w] \in {"loop", "lock_report"}
    /\ \E u \in Workers \ {w} :
          pool_lock = Some(u) /\ pc[u] \in {"get_node", "report"} /\ ENABLED WorkerStep(u)

\* C14 (no worker dies from a recoverable condition): a worker is always at
\* a position of its loop; whatever the outcome of its attempt, each of its
\* steps brings it closer to the top of the loop, where it acquires a node
\* again; and a worker that is not at the top can always take its next step,
\* unless it waits for the pool mutex while another worker's pool call holds
\* it.
C14_WorkersNeverDie ==
    [][\A w \in Workers :
          /\ pc[w] \in LoopPositions /\ pc'[w] \in LoopPositions
          /\ pc'[w] # pc[w] =>
                \/ pc[w] = "loop" /\ pc'[w] = "get_node"
                \/ Rank(pc'[w]) < Rank(pc[w])
          /\ pc[w] # "loop" => (ENABLED WorkerStep(w)) \/ WaitsForPool(w)]_vars

\* Witness of C14: an iteration that ended in a transport failure lies
\* behind, and a worker has started the next iteration.
C14_Witness ==
    /\ attempts = MaxAttempts
    /\ \E w \in Workers : pc[w] = "get_node"
    /\ stats.failed_requests = 1 /\ build_failures = 0
    /\ \E i \in 1..Len(gm.nodes) : gm.nodes[i].failures = 1

\* C15 (the interrupt terminates the engine), as claimed: once the
\* interrupt signal has been handled (run() has returned), no worker starts
\* a further attempt, and neither the pool nor a counter changes.
C15_InterruptStops ==
    [][main_pc # "running" =>
          /\ gm' = gm
          /\ stats' = stats
          /\ \A w \in Workers : ~(pc[w] = "loop" /\ pc'[w] = "get_node")]_vars

\* A step in which worker w receives and classifies a response.
Classifies(w) == pc[w] = "send" /\ att[w].verdict = None /\ att'[w].verdict # None

\* C16 (baseline source), as claimed: the baseline hash is stored only in a
\* step that classifies a response as Success, and it is the hash of that
\* response; the first response classified Success is stored.
C16_BaselineFromSuccess ==
    [][/\ baseline_hash' # baseline_hash =>
             \E w \in Workers :
                 /\ Classifies(w)
                 /\ att'[w].verdict = Some(Success)
                 /\ baseline_hash' = att'[w].current_hash
       /\ \A w \in Workers :
             (Classifies(w) /\ att'[w].verdict = Some(Success) /\ baseline_hash = None)
                 => baseline_hash' = att'[w].current_hash]_vars

\* C17 (baseline write-once): once the baseline hash is set, no step of any
\* worker changes it; a later response is only compared against it.
C17_BaselineWriteOnce ==
    [][baseline_hash # None => baseline_hash' = baseline_hash]_vars

\* Witness of C17: with the baseline set, a worker has received a response
\* with status 200 and another structure, and the baseline is the old one.
C17_Witness ==
    \E w \in Workers :
        /\ baseline_hash # None
        /\ att[w].status = Some(200)
        /\ att[w].current_hash # None
        /\ att[w].current_hash # baseline_hash

(* ---------------- SpecSolver: BrowserSolver::solve -------------------- *)

\* What tab.get_content() may give at a poll.
ContentResults ==
    { Err("cdp"),
      Ok("<html><p>Checking your browser</p></html>"),
      Ok("<html><app-root></app-root></html>") }

\* What tab.get_cookies() may give at a poll.
CookieResults ==
    { [ok |-> FALSE, val |-> <<>>],
      Ok(<<>>),
      Ok(<<[name |-> "cf_clearance", value |-> "tok"]>>),
      Ok(<<[name |-> "sid", value |-> "1"], [name |-> "lang", value |-> "en"]>>) }

\* The `?` exits before the interaction: Browser::new, new_tab, call_method
\* and navigate_to, each of which may fail.
SetupFailures == {"Failed to launch browser", "new_tab", "call_method", "navigate_to"}

SolverInit ==
    /\ s_stage = "Launch"
    /\ s_interact = None
    /\ s_elapsed = 0
    /\ s_env = NoEnv
    /\ s_polls = 0
    /\ s_ret = None
    /\ HashIdle
    /\ AnalyzeIdle
    /\ gm = GridManager_new(<<>>)
    /\ now = 0
    /\ held = [u \in Urls |-> 0]
    /\ op = NoCall
    /\ streak = [u \in Urls |-> 0]
    /\ since_reset = [u \in Urls |-> 0]
    /\ armed = [u \in Urls |-> None]
    /\ recent = <<>>
    /\ profiles = <<>>
    /\ pool_lock = None
    /\ pc = [w \in Workers |-> "loop"]
    /\ att = [w \in Workers |-> NoAttempt]
    /\ stats = EngineStats_default
    /\ baseline_hash = None
    /\ last_cookie = None
    /\ attempts = 0
    /\ build_failures = 0
    /\ main_pc = "running"
    /\ esc = [w \in Workers |-> NoEscalation]

\* The browser is launched, a tab opened, the user agent set and the target
\* loaded; the first of these to fail ends solve with its error.
SolveSetup ==
    /\ s_stage = "Launch"
    /\ \/ /\ s_stage' = "Interact"
          /\ UNCHANGED s_ret
       \/ \E e \in SetupFailures :
             /\ s_stage' = "Failed"
             /\ s_ret' = Some(Err(e))
    /\ UNCHANGED <<s_interact, s_elapsed, s_env, s_polls, hashVars, poolVars, analyzeVars, engineVars>>

\* simulate_human_behavior returns, Ok or Err (which is logged), and
\* `start_time = Instant::now()`.
SolveInteract ==
    /\ s_stage = "Interact"
    /\ \E ok \in BOOLEAN : s_interact' = Some(ok)
    /\ s_elapsed' = 0
    /\ s_stage' = "Poll"
    /\ UNCHANGED <<s_env, s_polls, s_ret, hashVars, poolVars, analyzeVars, engineVars>>

\* The head of the while loop and, when the time is not up, the body up to
\* the sleep.
SolvePoll ==
    /\ s_stage = "Poll"
    /\ IF s_elapsed < POLL_TIMEOUT_MS
       THEN \E content_res \in ContentResults, cookies_res \in CookieResults :
               /\ s_env' = [content |-> content_res, cookies |-> cookies_res]
               /\ s_polls' = s_polls + 1
               /\ LET r == poll_once(content_res, cookies_res) IN
                  IF r # None
                  THEN /\ s_ret' = Some(Ok(CHOOSE x \in r : TRUE))
                       /\ s_stage' = "Solved"
                  ELSE /\ s_ret' = s_ret
                       /\ s_stage' = "Sleep"
       ELSE /\ s_ret' = Some(Err("Browser failed to solve challenge within timeout"))
            /\ s_stage' = "TimedOut"
            /\ UNCHANGED <<s_env, s_polls>>
    /\ UNCHANGED <<s_interact, s_elapsed, hashVars, poolVars, analyzeVars, engineVars>>

\* Mutant of SolveSleep: the clock the loop reads does not move.
SolveSleep_no_clock ==
    /\ s_stage = "Sleep"
    /\ s_stage' = "Poll"
    /\ UNCHANGED <<s_elapsed, s_interact, s_env, s_polls, s_ret, hashVars, poolVars, analyzeVars, engineVars>>

\* `std::thread::sleep(Duration::from_millis(500))`: by the next test of the
\* loop the sleep and the time the calls took have gone by.
SolveSleep ==
    /\ s_stage = "Sleep"
    /\ \E lag \in 0..MaxLag : s_elapsed' = s_elapsed + POLL_INTERVAL_MS + lag * POLL_INTERVAL_MS
    /\ s_stage' = "Poll"
    /\ UNCHANGED <<s_interact, s_env, s_polls, s_ret, hashVars, poolVars, analyzeVars, engineVars>>

SolverNext ==
    \/ SolveSetup
    \/ SolveInteract
    \/ SolvePoll
    \/ SolveSleep

SpecSolver == SolverInit /\ [][SolverNext]_vars

(* ----------------------- claims about the solver --------------------- *)

\* A step that runs the body of the poll loop once.
Polls == s_stage = "Poll" /\ s_polls' = s_polls + 1

MarkerSeen(env) == env.content.ok /\ content_solved(env.content.val)

\* The cookie the claim calls the designated success cookie; the code names
\* none.
SuccessCookie == "cf_clearance"

CookieSeen(env) ==
    env.cookies.ok /\ \E i \in 1..Len(env.cookies.val) : env.cookies.val[i].name = SuccessCookie

\* The string the cookies of the models' jars join to.
Joined(cookies) ==
    IF Len(cookies) = 1 THEN "cf_clearance=tok" ELSE "sid=1; lang=en"

\* C18 as claimed: a poll at which the success cookie is in the jar, or a
\* success marker in the page content, ends the solver as Solved with a
\* credential, with no further condition.
C18_Original ==
    [][(Polls /\ (MarkerSeen(s_env') \/ CookieSeen(s_env'))) =>
          /\ s_stage' = "Solved"
          /\ \E r \in s_ret' : r.ok /\ r.val # ""]_vars

\* C18 (poll, first accepted indicator wins), amended: a poll at which the
\* page content was read and holds a success marker, and the cookies were read
\* and are not empty, ends the solver as Solved, returning all cookies joined
\* as "name=value; ..."; any other poll, whatever cookie the jar holds, goes
\* on to the sleep with nothing returned.
C18_PollAccepts ==
    [][Polls =>
          IF MarkerSeen(s_env') /\ s_env'.cookies.ok /\ s_env'.cookies.val # <<>>
          THEN /\ s_stage' = "Solved"
               /\ s_ret' = Some(Ok(Joined(s_env'.cookies.val)))
          ELSE /\ s_stage' = "Sleep"
               /\ s_ret' = None]_vars

\* Witness of C18: after polls that were not accepted, one was, and solve
\* returned the two cookies of the jar joined.
C18_Witness ==
    /\ s_stage = "Solved"
    /\ s_polls = 3
    /\ s_ret = Some(Ok("sid=1; lang=en"))

\* C19 (solver termination): an escalation that reached the poll loop ends
\* as Solved (a string returned) or as TimedOut (the timeout error returned),
\* never both and nothing after; it times out only when the timeout has
\* elapsed; every poll but the latest was followed by a sleep of 500 ms, so
\* there are at most timeout / 500 ms polls; the loop is never stuck; and a
\* failed interaction is followed by the poll loop like a successful one
\* (solve fails otherwise only before the interaction).
C19_SolverTerminates ==
    /\ s_stage \in {"Poll", "Sleep"} => s_ret = None /\ ENABLED SolverNext
    /\ s_stage = "Poll" => s_polls * POLL_INTERVAL_MS <= s_elapsed
    /\ s_stage = "Sleep" =>
          /\ (s_polls - 1) * POLL_INTERVAL_MS <= s_elapsed
          /\ s_elapsed < POLL_TIMEOUT_MS
    /\ s_polls <= POLL_TIMEOUT_MS \div POLL_INTERVAL_MS
    /\ s_stage = "Solved" =>
          /\ \E r \in s_ret : r.ok
          /\ s_elapsed < POLL_TIMEOUT_MS
    /\ s_stage = "TimedOut" =>
          /\ s_ret = Some(Err("Browser failed to solve challenge within timeout"))
          /\ s_elapsed >= POLL_TIMEOUT_MS
    /\ s_stage \in {"Solved", "TimedOut", "Failed"} => ~ENABLED SolverNext
    /\ s_interact # None => s_stage \in {"Poll", "Sleep", "Solved", "TimedOut"}
    /\ s_stage = "Failed" => s_interact = None /\ s_polls = 0

\* Witness of C19: the interaction failed, the loop polled 60 times, every
\* 500 ms, and solve timed out.
C19_Witness ==
    /\ s_stage = "TimedOut"
    /\ s_interact = Some(FALSE)
    /\ s_polls = POLL_TIMEOUT_MS \div POLL_INTERVAL_MS
    /\ s_elapsed = POLL_TIMEOUT_MS

(* ------------------------ more claims about the pool ------------------ *)

\* C20 (frame of report_success): a report_success call of a worker sets the
\* failure count of the node with that url to 0 and changes nothing else of
\* the pool: the node keeps its url and its deadline, so a node that is
\* cooling down still is and is not what get_next_node returns next; the
\* cursor and every other node are as before.  And on a url that no node of
\* the pool has (run() makes no such call) report_success changes nothing.
C20_ReportSuccessFrame ==
    [][/\ \A url \in Urls : PoolReportSuccess(url) =>
             /\ gm'.index = gm.index
             /\ Len(gm'.nodes) = Len(gm.nodes)
             /\ \A i \in 1..Len(gm.nodes) :
                   IF gm.nodes[i].url = url
                   THEN /\ gm'.nodes[i].failures = 0
                        /\ gm'.nodes[i].url = url
                        /\ gm'.nodes[i].cooldown_until = gm.nodes[i].cooldown_until
                        /\ CoolingDown(gm.nodes[i], now) =>
                              /\ CoolingDown(gm'.nodes[i], now')
                              /\ get_next_node(gm', now').ret # Some(url)
                   ELSE gm'.nodes[i] = gm.nodes[i]
       /\ \A url \in Urls :
             (\A i \in 1..Len(gm.nodes) : gm.nodes[i].url # url) =>
                 report_success(gm, url) = gm]_vars

\* Witness of C20: report_success was called on a node that is cooling down:
\* its count is 0 and its deadline is still set and ahead.
C20_Witness ==
    \E i \in 1..Len(gm.nodes) :
        /\ gm.nodes[i].failures = 0
        /\ CoolingDown(gm.nodes[i], now)
        /\ since_reset[gm.nodes[i].url] = 0
        /\ armed[gm.nodes[i].url] = gm.nodes[i].cooldown_until
        /\ now > 0

(* ------------------- claims about the challenge kind ------------------- *)

\* The body carries both halves of the provider pair.
CarriesProviderPair == Carries("provider1") /\ Carries("provider2")

\* C21 (challenge kind): a body with no success marker that carries both
\* provider markers is classified Challenge("Cloudflare"), and a body with no
\* success marker that carries a generic signature and not the provider pair
\* is classified Challenge("Generic JS").
C21_ChallengeKind ==
    \A v \in a_verdict :
        ~Carries("success") =>
            /\ CarriesProviderPair => v = Challenge("Cloudflare")
            /\ (Carries("generic") /\ ~CarriesProviderPair) => v = Challenge("Generic JS")


(* -------------------- claims about the pool lock ---------------------- *)

\* The engine started with at most one proxy in its configuration.
FairInit == Init /\ Len(gm.nodes) <= 1

\* The engine with the scheduling the runtime gives a pool call: the code
\* between `grid_manager.lock()` and the end of the guard's scope has no
\* await, so the thread that runs it gets to the unlock.
SpecFair ==
    /\ FairInit
    /\ [][Next]_vars
    /\ \A w \in Workers : WF_vars(GetNode(w)) /\ WF_vars(Report(w))

\* The worker is inside a pool call: between a `grid_manager.lock()` and the
\* end of the guard's scope.
InsidePool(w) == pc[w] \in {"get_node", "report"}

\* The worker is at an await: the retry sleep, the sleep that ends the
\* iteration, the HTTP request, or the solver run.
Suspended(w) == pc[w] \in {"retry_sleep", "sleep", "send", "solving"}

\* At most one worker is inside the pool, it is the holder of the lock, and
\* no suspended worker holds the lock.
PoolExclusive ==
    /\ Cardinality({w \in Workers : InsidePool(w)}) <= 1
    /\ \A w \in Workers :
          /\ InsidePool(w) <=> pool_lock = Some(w)
          /\ Suspended(w) => pool_lock # Some(w)

\* The pool changes only in a step of the lock's holder, and the next step
\* of the lock's holder is the one pool call, which ends with the unlock.
OneCallPerSection ==
    /\ gm' # gm => \E w \in Workers : pool_lock = Some(w) /\ pc'[w] # pc[w]
    /\ \A w \in Workers :
          pool_lock = Some(w) /\ pc'[w] # pc[w] =>
              /\ GetNode(w) \/ Report(w)
              /\ pool_lock' = None

\* C22 (pool mutual exclusion): every pool call is one critical section
\* under the pool lock, at most one worker is inside the pool, no worker
\* holds the lock at a suspension point, and a lock that is held is
\* eventually released.
C22_PoolMutualExclusion ==
    /\ []PoolExclusive
    /\ [][OneCallPerSection]_vars
    /\ \A w \in Workers : (pool_lock = Some(w)) ~> (pool_lock = None)

\* Witness of C22: a worker that went through a solver run is inside
\* report_* with the lock, while another worker that has recorded its
\* outcome waits for the lock.
C22_Witness ==
    \E w \in Workers : \E v \in Workers \ {w} :
        /\ pool_lock = Some(w)
        /\ pc[w] = "report"
        /\ att[w].solved # None
        /\ pc[v] = "lock_report"


(* ------------- claims about failure counts and deadlines --------------- *)

\* C23 (failure count without a deadline): a node with no cooldown deadline
\* set has a failure count of at most 3.
C23_NoDeadlineLowCount ==
    \A i \in 1..Len(gm.nodes) :
        gm.nodes[i].cooldown_until = None => gm.nodes[i].failures <= THRESHOLD

\* Witness of C23: a node with no deadline stands at 3 failures, while
\* another node, reported a success during its cooldown, has a deadline set
\* and a count of 0.
C23_Witness ==
    \E i \in 1..Len(gm.nodes) : \E j \in 1..Len(gm.nodes) :
        /\ gm.nodes[i].cooldown_until = None
        /\ gm.nodes[i].failures = THRESHOLD
        /\ gm.nodes[j].cooldown_until # None
        /\ gm.nodes[j].failures = 0


\* C24 (cooldown extension): a report_failure for a node whose count is
\* already above 3 increments the count and sets the deadline to 60 s after
\* the call; and a deadline changes only by being cleared or by a
\* report_failure that leaves the count above 3, which sets it to 60 s after
\* that call: a deadline that is set is 60 s after the latest such report.
C24_CooldownExtension ==
    [][\A i \in 1..Len(gm.nodes) :
          LET node == gm.nodes[i]
              after == gm'.nodes[i]
          IN /\ (node.failures > THRESHOLD /\ PoolReportFailure(node.url)) =>
                    /\ after.failures = node.failures + 1
                    /\ after.cooldown_until = Some(now + COOLDOWN_SECS)
             /\ after.cooldown_until # node.cooldown_until =>
                    \/ after.cooldown_until = None
                    \/ /\ PoolReportFailure(node.url)
                       /\ after.failures > THRESHOLD
                       /\ after.cooldown_until = Some(now + COOLDOWN_SECS)]_vars

\* Witness of C24: in a pool of one node, the node got its 4th failure at
\* time 0 (the clock moves only while a deadline is set, and no deadline has
\* passed yet) and a 5th, from a worker that had acquired it before, half a
\* cooldown later: the deadline is 60 s after the 5th.
C24_Witness ==
    /\ Len(gm.nodes) = 1
    /\ now = COOLDOWN_SECS \div 2
    /\ gm.nodes[1].failures = THRESHOLD + 2
    /\ gm.nodes[1].cooldown_until = Some(now + COOLDOWN_SECS)


(* ------------------- claims about the in-flight gap -------------------- *)

\* The workers between `total_requests.fetch_add` and the fetch_add of their
\* outcome's counter.
InFlightWorkers == {w \in Workers : InFlight(w)}

\* total - (success + blocked + failed - client-build failures).
Gap ==
    stats.total_requests
    - (stats.successful_requests + stats.blocked_requests
       + stats.failed_requests - build_failures)

\* C25 (in-flight bound): the gap between total and the outcomes counted for
\* built clients is at least 0 and at most the number of workers, and is the
\* number of workers between incrementing total and recording their outcome;
\* no counter ever decreases.
C25_InFlightBound ==
    /\ [](/\ Gap >= 0
          /\ Gap <= NumWorkers
          /\ Gap = Cardinality(InFlightWorkers))
    /\ [][\A c \in DOMAIN stats : stats'[c] >= stats[c]]_vars

\* Witness of C25: every worker is in flight at once, one of them waiting
\* for the solver: the gap is the number of workers.
C25_Witness ==
    /\ InFlightWorkers = Workers
    /\ \E w \in Workers : pc[w] = "solving"
    /\ Gap = NumWorkers


====
